---- MODULE Spec2Model ----
(***************************************************************************)
(* A model of the weather history pipeline of travelapp_pandas:            *)
(* weather/services.py (history store, attributes store, filter engine),   *)
(* weather/views.py (the home view) and weather_app.py (the CLI).          *)
(*                                                                         *)
(* Text is a sequence of one-character strings, so that strip() and        *)
(* casefold() are computed, not assumed.  An instant is a number of ticks, *)
(* SubSec ticks to the second; the history file holds whole seconds, as    *)
(* persist_history's date_format renders them.                             *)
(***************************************************************************)
EXTENDS Integers, Sequences, FiniteSets, TLC

(***************************************************************************)
(* Bounds of the model.                                                    *)
(***************************************************************************)
\* ticks of the wall clock per second (datetime.now has sub-second precision)
SubSec == 2
\* how far the wall clock advances in a behaviour, in ticks
MaxTicks == 2
\* how many fetch cycles persist in a behaviour
MaxCycles == 2

(***************************************************************************)
(* Text.                                                                   *)
(***************************************************************************)
Uppers == <<"A","B","C","D","E","F","G","H","I","J","K","L","M",
            "N","O","P","Q","R","S","T","U","V","W","X","Y","Z">>
Lowers == <<"a","b","c","d","e","f","g","h","i","j","k","l","m",
            "n","o","p","q","r","s","t","u","v","w","x","y","z">>

\* pandas' missing text value (pd.NA), kept apart from every text
NA == <<"<NA>">>
\* pandas' missing instant (NaT)
NaT == -1

IsSpace(c) == c \in {" ", "\t"}

\* the lower-case letter of each upper-case letter
FoldTable ==
    [c \in {Uppers[i] : i \in 1..Len(Uppers)} |->
        Lowers[CHOOSE i \in 1..Len(Uppers) : Uppers[i] = c]]

CasefoldChar(c) == IF c \in DOMAIN FoldTable THEN FoldTable[c] ELSE c

\* str.casefold / str.lower on ASCII text; missing stays missing
Casefold(t) == IF t = NA THEN NA ELSE [i \in 1..Len(t) |-> CasefoldChar(t[i])]

\* str.strip: leading and trailing whitespace removed; missing stays missing
Strip(t) ==
    IF t = NA THEN NA
    ELSE LET ink == {i \in 1..Len(t) : ~IsSpace(t[i])}
         IN  IF ink = {} THEN <<>>
             ELSE LET lo == CHOOSE i \in ink : \A j \in ink : i <= j
                      hi == CHOOSE i \in ink : \A j \in ink : j <= i
                  IN  SubSeq(t, lo, hi)

\* a stable sort: Before(a, b) says a goes strictly before b
InsertBy(s, r, Before(_, _)) ==
    LET k == Cardinality({i \in 1..Len(s) : ~Before(r, s[i])})
    IN  SubSeq(s, 1, k) \o <<r>> \o SubSeq(s, k + 1, Len(s))

SortBy(seq, Before(_, _)) ==
    LET f[n \in 0..Len(seq)] ==
            IF n = 0 THEN <<>> ELSE InsertBy(f[n - 1], seq[n], Before)
    IN  f[Len(seq)]

Range(seq) == {seq[i] : i \in 1..Len(seq)}

(***************************************************************************)
(* Observation rows (HISTORY_COLUMNS) and their identity key.              *)
(***************************************************************************)
Row(city, ts, source, obs) ==
    [city |-> city, timestamp_utc |-> ts, source |-> source,
     description |-> obs.description, temperature_C |-> obs.temperature_C,
     feels_like_C |-> obs.feels_like_C, humidity_pct |-> obs.humidity_pct,
     wind_kmph |-> obs.wind_kmph]

KeyOf(r) == <<r.city, r.timestamp_utc, r.source>>

Keys(df) == {KeyOf(df[i]) : i \in 1..Len(df)}

ValuesOf(r) ==
    <<r.description, r.temperature_C, r.feels_like_C, r.humidity_pct, r.wind_kmph>>

\* the noon instant of a forecast day (day 0 is 1970-01-01), in ticks
NoonOf(day) == (day * 86400 + 43200) * SubSec

\* the rows of seq at the positions Keep holds of, in order
SelectIdx(seq, Keep(_)) ==
    LET f[n \in 0..Len(seq)] ==
            IF n = 0 THEN <<>>
            ELSE IF Keep(n) THEN Append(f[n - 1], seq[n]) ELSE f[n - 1]
    IN  f[Len(seq)]

(***************************************************************************)
(* The history file.  kind is "absent" (no file), "unparseable" (read_csv  *)
(* raises on it), "no_timestamp_column" (a table without timestamp_utc) or *)
(* "table".  A file row holds text: its timestamp_utc is a number of whole *)
(* seconds (the text YYYY-MM-DDTHH:MM:SSZ), or BlankStamp (an empty cell), *)
(* or GarbageStamp (text that is no instant).                              *)
(***************************************************************************)
BlankStamp == -1
GarbageStamp == -2

AbsentFile == [kind |-> "absent", rows |-> <<>>]
UnparseableFile == [kind |-> "unparseable", rows |-> <<>>]
NoTimestampFile(rows) == [kind |-> "no_timestamp_column", rows |-> rows]
TableFile(rows) == [kind |-> "table", rows |-> rows]

\* read_csv's default na_values, those spelled with letters
NaTokens ==
    {<<>>, <<"N","A">>, <<"N","a","N">>, <<"n","a","n">>, <<"N","U","L","L">>,
     <<"n","u","l","l">>, <<"N","o","n","e">>, <<"<NA>">>}

\* a text cell as read_csv delivers it
ReadText(cell) == IF cell \in NaTokens THEN NA ELSE cell

\* a text value as to_csv writes it
WriteText(t) == IF t = NA THEN <<>> ELSE t

\* pd.to_datetime(..., utc=True, errors="coerce") of a timestamp cell
ParseTimestamp(cell) == IF cell < 0 THEN NaT ELSE cell * SubSec

\* to_csv's date_format="%Y-%m-%dT%H:%M:%SZ": whole seconds, NaT as an empty cell
FormatTimestamp(ts) == IF ts = NaT THEN BlankStamp ELSE ts \div SubSec

ReadRow(fr) ==
    [fr EXCEPT !.city = ReadText(fr.city),
               !.timestamp_utc = ParseTimestamp(fr.timestamp_utc),
               !.description = ReadText(fr.description)]

WriteRow(r) ==
    [r EXCEPT !.city = WriteText(r.city),
              !.timestamp_utc = FormatTimestamp(r.timestamp_utc),
              !.description = WriteText(r.description)]

\* load_history: [raised, df]
load_history(f) ==
    CASE f.kind = "absent" -> [raised |-> FALSE, df |-> <<>>]
      [] f.kind = "unparseable" -> [raised |-> TRUE, df |-> <<>>]
      [] f.kind = "no_timestamp_column" -> [raised |-> FALSE, df |-> <<>>]
      [] OTHER -> [raised |-> FALSE,
                   df |-> [i \in 1..Len(f.rows) |-> ReadRow(f.rows[i])]]

\* drop_duplicates with keep="first": the earlier row of a key survives
DropDuplicatesFirst(df) ==
    LET Keep(i) == \A j \in 1..(i - 1) : KeyOf(df[j]) # KeyOf(df[i])
    IN  SelectIdx(df, Keep)

\* drop_duplicates(subset=[city, timestamp_utc, source], keep="last")
DropDuplicatesLast(df) ==
    LET Keep(i) == \A j \in (i + 1)..Len(df) : KeyOf(df[j]) # KeyOf(df[i])
    IN  SelectIdx(df, Keep)

\* sort_values("timestamp_utc"): ascending, NaT last
TimestampBefore(a, b) ==
    /\ a.timestamp_utc # NaT
    /\ (b.timestamp_utc = NaT \/ a.timestamp_utc < b.timestamp_utc)

SortByTimestamp(df) == SortBy(df, TimestampBefore)

\* append_history without drop_duplicates
AppendWithoutDedup(history_df, new_df) ==
    SortByTimestamp(IF history_df = <<>> THEN new_df ELSE history_df \o new_df)

append_history(history_df, new_df) ==
    LET combined == IF history_df = <<>> THEN new_df ELSE history_df \o new_df
    IN  SortByTimestamp(DropDuplicatesLast(combined))

\* persist_history: the whole file is rewritten
persist_history(df) == TableFile([i \in 1..Len(df) |-> WriteRow(df[i])])

(***************************************************************************)
(* The provider's payload.  A block is [ok, obs]: ok is FALSE when a field *)
(* normalize_weather reads from it is missing or is no number.  A day is   *)
(* [date, hourly]: date is a day number, or BadDate for text that is no    *)
(* ISO date.                                                               *)
(***************************************************************************)
BadDate == -1

MiddayBlock(day) == IF Len(day.hourly) >= 5 THEN day.hourly[5] ELSE day.hourly[1]

DayRaises(day) ==
    \/ day.hourly = <<>>
    \/ ~MiddayBlock(day).ok
    \/ day.date = BadDate

\* normalize_weather that skips a forecast day it cannot read
NormalizeSkippingBadDays(city, payload, clock) ==
    IF payload.current_condition = <<>> \/ ~payload.current_condition[1].ok
    THEN [raised |-> TRUE, df |-> <<>>]
    ELSE LET days == SelectSeq(payload.weather, LAMBDA day : ~DayRaises(day))
         IN  [raised |-> FALSE,
              df |-> <<Row(city, clock, "current", payload.current_condition[1].obs)>>
                     \o [d \in 1..Len(days) |->
                            Row(city, NoonOf(days[d].date), "forecast",
                                MiddayBlock(days[d]).obs)]]

\* normalize_weather: [raised, df]; no row is returned when any block fails
normalize_weather(city, payload, clock) ==
    IF \/ payload.current_condition = <<>>
       \/ ~payload.current_condition[1].ok
       \/ \E d \in 1..Len(payload.weather) : DayRaises(payload.weather[d])
    THEN [raised |-> TRUE, df |-> <<>>]
    ELSE [raised |-> FALSE,
          df |-> <<Row(city, clock, "current", payload.current_condition[1].obs)>>
                 \o [d \in 1..Len(payload.weather) |->
                        Row(city, NoonOf(payload.weather[d].date), "forecast",
                            MiddayBlock(payload.weather[d]).obs)]]

\* nlargest(3, "timestamp_utc") of the forecast rows, then sorted ascending
ForecastSnapshots(df) ==
    LET fc == SelectIdx(df, LAMBDA i : df[i].source = "forecast")
        Later(a, b) == a.timestamp_utc > b.timestamp_utc
        top == SortBy(fc, Later)
        top3 == SubSeq(top, 1, IF Len(top) < 3 THEN Len(top) ELSE 3)
    IN  SortBy(top3, LAMBDA a, b : a.timestamp_utc < b.timestamp_utc)

\* build_report: [raised, report]; iloc[-1] raises when there is no current row
build_report(df) ==
    LET cur == SelectIdx(df, LAMBDA i : df[i].source = "current")
    IN  IF cur = <<>>
        THEN [raised |-> TRUE, city |-> NA, current |-> <<>>, forecasts |-> <<>>]
        ELSE [raised |-> FALSE, city |-> cur[Len(cur)].city,
              current |-> <<cur[Len(cur)]>>, forecasts |-> ForecastSnapshots(df)]

(***************************************************************************)
(* The attributes file (home_prices.csv).  kind is "absent" or "table"; a  *)
(* table has a set of column names and rows, each a record from column     *)
(* name to cell.  A cell is what read_csv delivers: a text, a number, a    *)
(* boolean or a missing value.                                             *)
(***************************************************************************)
TextCell(t) == [kind |-> "str", text |-> t, num |-> 0]
NumCell(n) == [kind |-> "num", text |-> <<>>, num |-> n]
BoolCell(b) == [kind |-> "bool", text |-> <<>>, num |-> IF b THEN 1 ELSE 0]
NaCell == [kind |-> "na", text |-> <<>>, num |-> 0]

HOME_PRICE_BASE_COLUMNS == <<"city", "avg_home_price">>
HOME_PRICE_OPTIONAL_BEACH_COLUMNS == <<"has_beach", "Beaches", "beach", "has_beaches">>
HOME_PRICE_OPTIONAL_MOUNTAIN_COLUMNS ==
    <<"has_mountain", "Mountains", "mountains", "has_mountains">>
HOME_PRICE_OPTIONAL_CONTINENT_COLUMNS == <<"continent", "Continent", "region", "Region">>

TruthyTokens ==
    {<<"t","r","u","e">>, <<"1">>, <<"y","e","s">>, <<"y">>, <<"t">>, <<"o","n">>}

\* _coerce_bool
coerce_bool(cell) ==
    CASE cell.kind = "na" -> FALSE
      [] cell.kind = "str" -> Casefold(Strip(cell.text)) \in TruthyTokens
      [] OTHER -> cell.num # 0

\* next((column for column in candidates if column in df.columns), None)
FirstPresent(candidates, columns) ==
    LET hits == {i \in 1..Len(candidates) : candidates[i] \in columns}
    IN  IF hits = {} THEN "" ELSE candidates[CHOOSE i \in hits : \A j \in hits : i <= j]

\* astype("string").str.strip() of a cell
CellText(cell) == IF cell.kind = "str" THEN Strip(cell.text) ELSE NA

\* the continent cell: stripped, the empty text made missing
ContinentText(cell) == IF CellText(cell) = <<>> THEN NA ELSE CellText(cell)

Digits == <<"0","1","2","3","4","5","6","7","8","9">>

\* the value of a text of decimal digits
DigitsValue(t) ==
    LET f[n \in 0..Len(t)] ==
            IF n = 0 THEN 0
            ELSE 10 * f[n - 1] + (CHOOSE d \in 0..9 : Digits[d + 1] = t[n])
    IN  f[Len(t)]

\* pd.to_numeric(..., errors="coerce") of a cell: [ok, num]; a text is a number
\* when it spells an integer, with or without a sign (other spellings of
\* numbers are left out of the inputs)
ToNumeric(cell) ==
    LET digits == IF cell.text # <<>> /\ cell.text[1] = "-" THEN Tail(cell.text)
                  ELSE cell.text
        spelled == digits # <<>> /\ \A i \in 1..Len(digits) : digits[i] \in Range(Digits)
    IN  CASE cell.kind = "na" -> [ok |-> FALSE, num |-> 0]
          [] cell.kind = "str" ->
                 IF ~spelled THEN [ok |-> FALSE, num |-> 0]
                 ELSE [ok |-> TRUE,
                       num |-> IF cell.text[1] = "-" THEN 0 - DigitsValue(digits)
                               ELSE DigitsValue(digits)]
          [] OTHER -> [ok |-> TRUE, num |-> cell.num]

\* one row of load_home_prices' cleaned table, before dropna
CleanRow(f, r) ==
    LET beach == FirstPresent(HOME_PRICE_OPTIONAL_BEACH_COLUMNS, f.columns)
        mountain == FirstPresent(HOME_PRICE_OPTIONAL_MOUNTAIN_COLUMNS, f.columns)
        continent == FirstPresent(HOME_PRICE_OPTIONAL_CONTINENT_COLUMNS, f.columns)
        city == CellText(r.city)
    IN  [city |-> city,
         priced |-> ToNumeric(r.avg_home_price).ok,
         avg_home_price |-> ToNumeric(r.avg_home_price).num,
         has_beach |-> IF beach = "" THEN FALSE ELSE coerce_bool(r[beach]),
         has_mountain |-> IF mountain = "" THEN FALSE ELSE coerce_bool(r[mountain]),
         continent |-> IF continent = "" THEN NA ELSE ContinentText(r[continent]),
         city_key |-> Casefold(city)]

\* load_home_prices: the cleaned table, empty when the file or a base column is missing
load_home_prices(f) ==
    IF \/ f.kind = "absent"
       \/ f.rows = <<>>
       \/ \E i \in 1..Len(HOME_PRICE_BASE_COLUMNS) : HOME_PRICE_BASE_COLUMNS[i] \notin f.columns
    THEN <<>>
    ELSE LET cleaned == [i \in 1..Len(f.rows) |-> CleanRow(f, f.rows[i])]
             kept == SelectIdx(cleaned, LAMBDA i : cleaned[i].city # NA /\ cleaned[i].priced)
             Last(i) == \A j \in (i + 1)..Len(kept) : kept[j].city_key # kept[i].city_key
         IN  SelectIdx(kept, Last)

(***************************************************************************)
(* The filter engine.                                                      *)
(***************************************************************************)
\* max_price as the caller passes it: None, a value float() rejects, or a number
NoPrice == [kind |-> "none", num |-> 0]
BadPrice == [kind |-> "bad", num |-> 0]
Price(n) == [kind |-> "num", num |-> n]

MaxOf(S) == CHOOSE x \in S : \A y \in S : y <= x
MinOf(S) == CHOOSE x \in S : \A y \in S : x <= y

\* a ceiling that defaults to the table's minimum
ThresholdDefaultingToMin(home_prices, max_price) ==
    IF max_price.kind = "num" THEN max_price.num
    ELSE MinOf({home_prices[i].avg_home_price : i \in 1..Len(home_prices)})

\* the price ceiling filter_cities_by_home_price applies
Threshold(home_prices, max_price) ==
    IF max_price.kind = "num" THEN max_price.num
    ELSE MaxOf({home_prices[i].avg_home_price : i \in 1..Len(home_prices)})

filter_cities_by_home_price(home_prices, max_price, require_beach, require_mountain, continents) ==
    IF home_prices = <<>> THEN home_prices
    ELSE LET threshold == Threshold(home_prices, max_price)
             byPrice == SelectIdx(home_prices,
                            LAMBDA i : home_prices[i].avg_home_price <= threshold)
             byBeach == IF require_beach
                        THEN SelectIdx(byPrice, LAMBDA i : byPrice[i].has_beach)
                        ELSE byPrice
             byMountain == IF require_mountain
                           THEN SelectIdx(byBeach, LAMBDA i : byBeach[i].has_mountain)
                           ELSE byBeach
             normalized == {Casefold(Strip(continents[i])) : i \in
                               {j \in 1..Len(continents) : Strip(continents[j]) # <<>>}}
             byContinent ==
                 IF continents # <<>>
                 THEN SelectIdx(byMountain, LAMBDA i :
                          /\ byMountain[i].continent # NA
                          /\ Casefold(Strip(byMountain[i].continent)) \in normalized)
                 ELSE byMountain
         IN  SortBy(byContinent, LAMBDA a, b : a.avg_home_price < b.avg_home_price)

\* a key that is case-folded but not trimmed
UntrimmedCityKey(r) == Casefold(r.city)

\* the key filter_history_by_cities gives a history row
HistoryCityKey(r) == Casefold(Strip(r.city))

filter_history_by_cities(history_df, cities_df) ==
    IF history_df = <<>> THEN history_df
    ELSE IF cities_df = <<>> THEN <<>>
    ELSE LET city_keys == {cities_df[i].city_key : i \in 1..Len(cities_df)}
         IN  SelectIdx(history_df, LAMBDA i :
                 /\ HistoryCityKey(history_df[i]) # NA
                 /\ HistoryCityKey(history_df[i]) \in city_keys)

\* the month (1..12) of an instant of 1970 or 1971, 0 for NaT
MonthOf(ts) ==
    IF ts = NaT THEN 0
    ELSE LET day == ((ts \div SubSec) \div 86400) % 365
             ends == <<31, 59, 90, 120, 151, 181, 212, 243, 273, 304, 334, 365>>
         IN  CHOOSE m \in 1..12 : day < ends[m] /\ \A k \in 1..(m - 1) : day >= ends[k]

WINTER_MONTHS == {12, 1, 2}

Snow == <<"s","n","o","w">>

\* str.contains(needle, case=False, na=False)
ContainsFolded(text, needle) ==
    /\ text # NA
    /\ \E i \in 1..(Len(text) - Len(needle) + 1) :
           Casefold(SubSeq(text, i, i + Len(needle) - 1)) = Casefold(needle)

\* a winter filter that asks for the month alone
WinterMonthAlone(history_df, require_winter_snow) ==
    IF ~require_winter_snow THEN history_df
    ELSE SelectIdx(history_df, LAMBDA i :
             MonthOf(history_df[i].timestamp_utc) \in WINTER_MONTHS)

filter_history_for_winter_snow(history_df, require_winter_snow) ==
    IF ~require_winter_snow THEN history_df
    ELSE IF history_df = <<>> THEN history_df
    ELSE SelectIdx(history_df, LAMBDA i :
             /\ MonthOf(history_df[i].timestamp_utc) \in WINTER_MONTHS
             /\ ContainsFolded(history_df[i].description, Snow))

\* build_display_frame that sorts by temperature in ascending order
DisplayFrameSortedAscending(source_df, home_price_df, filtered_price_df, selected_has_winter_snow) ==
    LET warm == SelectIdx(source_df, LAMBDA i : source_df[i].temperature_C > 15)
        display == SortBy(warm, LAMBDA a, b : a.temperature_C < b.temperature_C)
        filtered_display == IF home_price_df = <<>> THEN display
                            ELSE filter_history_by_cities(display, filtered_price_df)
    IN  filter_history_for_winter_snow(filtered_display, selected_has_winter_snow)

\* build_display_frame that skips the join when no city qualifies
DisplayFrameSkippingEmptyJoin(source_df, home_price_df, filtered_price_df, selected_has_winter_snow) ==
    LET warm == SelectIdx(source_df, LAMBDA i : source_df[i].temperature_C > 15)
        display == SortBy(warm, LAMBDA a, b : a.temperature_C > b.temperature_C)
        filtered_display == IF filtered_price_df = <<>> THEN display
                            ELSE filter_history_by_cities(display, filtered_price_df)
    IN  filter_history_for_winter_snow(filtered_display, selected_has_winter_snow)

\* home.build_display_frame
build_display_frame(source_df, home_price_df, filtered_price_df, selected_has_winter_snow) ==
    LET warm == SelectIdx(source_df, LAMBDA i : source_df[i].temperature_C > 15)
        display == SortBy(warm, LAMBDA a, b : a.temperature_C > b.temperature_C)
        filtered_display == IF home_price_df = <<>> THEN display
                            ELSE filter_history_by_cities(display, filtered_price_df)
    IN  filter_history_for_winter_snow(filtered_display, selected_has_winter_snow)

(***************************************************************************)
(* The continent code resolver of the view.                                *)
(***************************************************************************)
\* the concatenation of a sequence of texts
Concat(texts) ==
    LET f[n \in 0..Len(texts)] == IF n = 0 THEN <<>> ELSE f[n - 1] \o texts[n]
    IN  f[Len(texts)]

\* str.replace of "_", "-" and "/" by " " and of "&" by " and "
ReplaceSeparators(t) ==
    Concat([i \in 1..Len(t) |->
               IF t[i] \in {"_", "-", "/"} THEN <<" ">>
               ELSE IF t[i] = "&" THEN <<" ","a","n","d"," ">>
               ELSE <<t[i]>>])

\* str.split(): the maximal runs without whitespace, in order
SplitWhitespace(t) ==
    LET starts == {i \in 1..Len(t) : ~IsSpace(t[i]) /\ (i = 1 \/ IsSpace(t[i - 1]))}
        EndOf(i) == CHOOSE j \in i..Len(t) :
                        /\ \A k \in i..j : ~IsSpace(t[k])
                        /\ (j = Len(t) \/ IsSpace(t[j + 1]))
        Nth(n) == CHOOSE i \in starts : Cardinality({s \in starts : s < i}) = n - 1
    IN  [n \in 1..Cardinality(starts) |-> SubSeq(t, Nth(n), EndOf(Nth(n)))]

\* " ".join(tokens)
JoinWithSpace(tokens) ==
    Concat([n \in 1..Len(tokens) |->
               IF n = 1 THEN tokens[n] ELSE <<" ">> \o tokens[n]])

\* the upper-case letter of each lower-case letter
UpperTable ==
    [c \in {Lowers[i] : i \in 1..Len(Lowers)} |->
        Uppers[CHOOSE i \in 1..Len(Lowers) : Lowers[i] = c]]

\* str.upper on ASCII text
Upper(t) == [i \in 1..Len(t) |-> IF t[i] \in DOMAIN UpperTable THEN UpperTable[t[i]] ELSE t[i]]

\* str.isalpha of a character
IsAlpha(c) == c \in DOMAIN UpperTable \/ c \in DOMAIN FoldTable

\* the first n characters of a text (t[:n])
Take(t, n) == SubSeq(t, 1, IF Len(t) < n THEN Len(t) ELSE n)

\* CONTINENT_CODE_LOOKUP, in the order of the dictionary
CONTINENT_CODE_LOOKUP ==
    <<<<<<"a","f","r","i","c","a">>,
        <<"A","F">>>>,
      <<<<"a","n","t","a","r","c","t","i","c","a">>,
        <<"A","N">>>>,
      <<<<"a","s","i","a">>,
        <<"A","S">>>>,
      <<<<"a","u","s","t","r","a","l","i","a">>,
        <<"A","U">>>>,
      <<<<"a","u","s","t","r","a","l","i","a"," ","a","n","d"," ","o","c","e","a","n","i","a">>,
        <<"A","U">>>>,
      <<<<"c","e","n","t","r","a","l"," ","a","m","e","r","i","c","a">>,
        <<"C","A">>>>,
      <<<<"e","u","r","o","p","e">>,
        <<"E","U">>>>,
      <<<<"m","i","d","d","l","e"," ","e","a","s","t">>,
        <<"M","E">>>>,
      <<<<"n","o","r","t","h"," ","a","m","e","r","i","c","a">>,
        <<"N","A">>>>,
      <<<<"o","c","e","a","n","i","a">>,
        <<"O","C">>>>,
      <<<<"s","o","u","t","h"," ","a","m","e","r","i","c","a">>,
        <<"S","A">>>>>>

\* a normalization that leaves "-" in place
NormalizeKeepingHyphen(value) ==
    IF value = NA \/ Strip(value) = <<>> THEN <<>>
    ELSE LET sanitized == Strip(value)
             replaced == Concat([i \in 1..Len(sanitized) |->
                                    IF sanitized[i] \in {"_", "/"} THEN <<" ">>
                                    ELSE IF sanitized[i] = "&" THEN <<" ","a","n","d"," ">>
                                    ELSE <<sanitized[i]>>])
         IN  Casefold(JoinWithSpace(SplitWhitespace(replaced)))

\* _normalize_continent_key; None is NA
normalize_continent_key(value) ==
    IF value = NA THEN <<>>
    ELSE LET sanitized == Strip(value)
         IN  IF sanitized = <<>> THEN <<>>
             ELSE Casefold(JoinWithSpace(SplitWhitespace(ReplaceSeparators(sanitized))))

\* the letters of continent_name.upper(), cut to two, or "XX"
FallbackCode(continent_name) ==
    LET letters == SelectSeq(Upper(continent_name), IsAlpha)
    IN  IF letters = <<>> THEN <<"X","X">> ELSE Take(letters, 2)

\* the tokens of a key, the word "and" left out
KeyTokens(normalized_key) ==
    SelectSeq(SplitWhitespace(normalized_key), LAMBDA token : token # <<"a","n","d">>)

\* the first letter of each token
Initials(tokens) == Concat([n \in 1..Len(tokens) |-> Take(tokens[n], 1)])

\* the code of two tokens or more: the initials (the first two letters of each
\* token when the initials are too few), cut to three characters
TokenCode(tokens) ==
    Take(IF Len(Initials(tokens)) < 2
         THEN Concat([n \in 1..Len(tokens) |-> Take(tokens[n], 2)])
         ELSE Initials(tokens), 3)

\* the code of a name whose key is not in CONTINENT_CODE_LOOKUP
CodeOfTokens(continent_name, tokens, code) ==
    IF tokens = <<>> THEN FallbackCode(continent_name)
    ELSE IF Len(tokens) = 1
         THEN IF Len(tokens[1]) >= 2 THEN Upper(Take(tokens[1], 2))
              ELSE Take(Upper(tokens[1] \o tokens[1]), 2)
    ELSE IF Len(code) < 2 THEN Upper(FallbackCode(continent_name))
    ELSE Upper(code)

\* the code of a name, from its normalized key
DeriveFromKey(continent_name, normalized_key) ==
    LET known == {i \in 1..Len(CONTINENT_CODE_LOOKUP) :
                     CONTINENT_CODE_LOOKUP[i][1] = normalized_key}
    IN  IF known # {} THEN CONTINENT_CODE_LOOKUP[CHOOSE i \in known : TRUE][2]
        ELSE CodeOfTokens(continent_name, KeyTokens(normalized_key),
                          TokenCode(KeyTokens(normalized_key)))

\* _derive_continent_code
derive_continent_code(continent_name) ==
    DeriveFromKey(continent_name, normalize_continent_key(continent_name))

\* dict.setdefault on a table from text to text
SetDefault(table, key, value) ==
    IF key \in DOMAIN table THEN table ELSE table @@ (key :> value)

\* a table without keys
EmptyTable == [key \in {} |-> <<>>]

\* the code of a canonical name is registered (views.py, lines 89-93)
RegisterCode(lookup, byName, canonical_value) ==
    LET code == IF canonical_value \in DOMAIN lookup.continent_code_by_canonical
                THEN lookup.continent_code_by_canonical[canonical_value]
                ELSE derive_continent_code(canonical_value)
    IN  [available_continent_map |-> SetDefault(byName, Casefold(code), canonical_value),
         continent_code_by_canonical |->
             [name \in DOMAIN lookup.continent_code_by_canonical \cup {canonical_value}
                 |-> IF name = canonical_value THEN code
                     ELSE lookup.continent_code_by_canonical[name]]]

\* the canonical name of a key is registered under its own case-folded form
\* (views.py, lines 86-87)
RegisterCanonical(lookup, byKey, canonical_key) ==
    RegisterCode(lookup,
                 SetDefault(byKey, Casefold(byKey[canonical_key]), byKey[canonical_key]),
                 byKey[canonical_key])

\* one turn of the loop over the continent column (views.py, lines 81-93)
RegisterContinent(lookup, raw_value) ==
    IF Strip(raw_value) = <<>> THEN lookup
    ELSE RegisterCanonical(
             lookup,
             SetDefault(lookup.available_continent_map,
                        normalize_continent_key(Strip(raw_value)), Strip(raw_value)),
             normalize_continent_key(Strip(raw_value)))

\* the aliases of the well-known table (views.py, lines 96-99)
RegisterKnownAliases(table) ==
    LET f[n \in 0..Len(CONTINENT_CODE_LOOKUP)] ==
            IF n = 0 THEN table
            ELSE LET alias == CONTINENT_CODE_LOOKUP[n][1]
                     code == CONTINENT_CODE_LOOKUP[n][2]
                     before == f[n - 1]
                 IN  IF alias \in DOMAIN before
                     THEN SetDefault(before, Casefold(code), before[alias])
                     ELSE before
    IN  f[Len(CONTINENT_CODE_LOOKUP)]

\* the continent lookup the view builds from the attributes table
ContinentLookup(prices) ==
    LET labels == SelectSeq([i \in 1..Len(prices) |-> prices[i].continent],
                            LAMBDA label : label # NA)
        f[n \in 0..Len(labels)] ==
            IF n = 0
            THEN [available_continent_map |-> EmptyTable,
                  continent_code_by_canonical |-> EmptyTable]
            ELSE RegisterContinent(f[n - 1], labels[n])
        built == f[Len(labels)]
    IN  IF prices = <<>>
        THEN [available_continent_map |-> EmptyTable,
              continent_code_by_canonical |-> EmptyTable]
        ELSE [available_continent_map |-> RegisterKnownAliases(built.available_continent_map),
              continent_code_by_canonical |-> built.continent_code_by_canonical]

\* continent_choices: the (code, canonical name) pairs offered by the form
ContinentChoices(lookup) ==
    {<<lookup.continent_code_by_canonical[name], name>> :
        name \in DOMAIN lookup.continent_code_by_canonical}

\* selected_continents: the canonical names of the requested values, each once
SelectedContinents(lookup, requested) ==
    LET f[n \in 0..Len(requested)] ==
            IF n = 0 THEN <<>>
            ELSE LET lookup_key == normalize_continent_key(requested[n])
                     before == f[n - 1]
                 IN  IF /\ lookup_key \in DOMAIN lookup.available_continent_map
                        /\ lookup.available_continent_map[lookup_key] \notin Range(before)
                     THEN Append(before, lookup.available_continent_map[lookup_key])
                     ELSE before
    IN  f[Len(requested)]

(***************************************************************************)
(* The inputs the model draws from.                                        *)
(***************************************************************************)
Oslo == <<"O","s","l","o">>
PaddedOslo == <<" ","O","s","l","o">>
LowerOslo == <<"o","s","l","o"," ">>
Rome == <<"R","o","m","e">>
Blank == <<" ">>

Clear20 ==
    [description |-> <<"C","l","e","a","r">>, temperature_C |-> 20,
     feels_like_C |-> 19, humidity_pct |-> 50, wind_kmph |-> 10]
Snow16 ==
    [description |-> <<"h","e","a","v","y"," ","S","n","o","w">>, temperature_C |-> 16,
     feels_like_C |-> 14, humidity_pct |-> 90, wind_kmph |-> 5]
Rain9 ==
    [description |-> <<"R","a","i","n">>, temperature_C |-> 9,
     feels_like_C |-> 7, humidity_pct |-> 80, wind_kmph |-> 30]

HeavySnowShowers16 ==
    [description |-> <<"h","e","a","v","y"," ","S","n","o","w"," ",
                       "s","h","o","w","e","r","s">>,
     temperature_C |-> 16, feels_like_C |-> 13, humidity_pct |-> 95, wind_kmph |-> 20]
LightSnow17 ==
    [description |-> <<"l","i","g","h","t"," ","s","n","o","w">>, temperature_C |-> 17,
     feels_like_C |-> 15, humidity_pct |-> 85, wind_kmph |-> 8]
ColdSnow9 ==
    [description |-> <<"S","N","O","W">>, temperature_C |-> 9,
     feels_like_C |-> 5, humidity_pct |-> 90, wind_kmph |-> 12]

OkBlock(obs) == [ok |-> TRUE, obs |-> obs]
BadBlock == [ok |-> FALSE, obs |-> Rain9]
Day(date, hourly) == [date |-> date, hourly |-> hourly]
Payload(current, weather) == [current_condition |-> current, weather |-> weather]

\* a current block only
PayloadCurrentOnly == Payload(<<OkBlock(Clear20)>>, <<>>)
\* a day of five hourly blocks: only the fifth is read
PayloadWithDay ==
    Payload(<<OkBlock(Rain9)>>,
            <<Day(0, <<BadBlock, BadBlock, BadBlock, BadBlock, OkBlock(Snow16)>>)>>)
\* two days with one date: the key collides inside the batch
PayloadTwinDays ==
    Payload(<<OkBlock(Snow16)>>,
            <<Day(0, <<OkBlock(Clear20)>>), Day(0, <<OkBlock(Rain9)>>)>>)
PayloadNoCurrent == Payload(<<>>, <<Day(0, <<OkBlock(Clear20)>>)>>)
\* the second day's midday block is malformed, after two rows were built
PayloadBadDay ==
    Payload(<<OkBlock(Clear20)>>,
            <<Day(0, <<OkBlock(Clear20)>>),
              Day(1, <<OkBlock(Clear20), OkBlock(Clear20), OkBlock(Clear20),
                       OkBlock(Clear20), BadBlock>>)>>)
PayloadBadDate == Payload(<<OkBlock(Clear20)>>, <<Day(BadDate, <<OkBlock(Clear20)>>)>>)

GoodPayloads == {PayloadCurrentOnly, PayloadWithDay, PayloadTwinDays}
BadPayloads == {PayloadNoCurrent, PayloadBadDay, PayloadBadDate}

\* what fetch_weather_payload gives: a payload, or an exception
Fetched(payload) == [kind |-> "ok", payload |-> payload]
FetchFailure == [kind |-> "failure", payload |-> PayloadCurrentOnly]
Responses == {Fetched(p) : p \in GoodPayloads \cup BadPayloads} \cup {FetchFailure}

\* the city a form posts, and the city a command line names
FormCities == {PaddedOslo, Blank}
CliCities == {Oslo}

\* a row of the history file
FileRow(city, stamp, source, obs) == Row(city, stamp, source, obs)

SortedTable ==
    TableFile(<<FileRow(Oslo, 43200, "forecast", Clear20),
                FileRow(Rome, 43201, "current", Rain9)>>)
UnsortedTable ==
    TableFile(<<FileRow(Rome, 43201, "current", Snow16),
                FileRow(LowerOslo, 43200, "current", Clear20)>>)
RepeatedKeyTable ==
    TableFile(<<FileRow(Oslo, 43200, "current", Clear20),
                FileRow(Oslo, 43200, "current", Rain9)>>)
GarbageStampTable ==
    TableFile(<<FileRow(Oslo, GarbageStamp, "current", Clear20),
                FileRow(<<>>, 43200, "forecast", Snow16)>>)

\* the noon of a day of 1970 as the file spells it, in whole seconds
FileNoonOf(day) == day * 86400 + 43200

\* winter and spring rows, with and without snow, above and below 15 degrees:
\* 1 and 2 January, 10 February, 2 March, 7 December 1970
WinterTable ==
    TableFile(<<FileRow(Rome, FileNoonOf(0), "forecast", Clear20),
                FileRow(Rome, FileNoonOf(1), "forecast", ColdSnow9),
                FileRow(Rome, FileNoonOf(40), "forecast", Snow16),
                FileRow(Oslo, FileNoonOf(60), "forecast", LightSnow17),
                FileRow(Oslo, FileNoonOf(340), "forecast", HeavySnowShowers16)>>)

HistoryFiles ==
    {AbsentFile, UnparseableFile, NoTimestampFile(<<FileRow(Oslo, 0, "current", Clear20)>>),
     TableFile(<<>>), SortedTable, UnsortedTable, RepeatedKeyTable, GarbageStampTable}

AbsentAttributes == [kind |-> "absent", columns |-> {}, rows |-> <<>>]
AttributesFile(columns, rows) == [kind |-> "table", columns |-> columns, rows |-> rows]

Europe == <<"E","u","r","o","p","e">>
Asia == <<"A","s","i","a">>
Yes == <<"Y","E","S">>
No == <<"n","o">>

\* city and price only
BarePrices ==
    AttributesFile({"city", "avg_home_price"},
        <<[city |-> TextCell(Oslo), avg_home_price |-> NumCell(300)],
          [city |-> TextCell(Rome), avg_home_price |-> NumCell(100)]>>)
\* feature and continent columns under variant spellings; a row without a price
FullPrices ==
    AttributesFile({"city", "avg_home_price", "Beaches", "has_mountain", "Region"},
        <<[city |-> TextCell(PaddedOslo), avg_home_price |-> NumCell(300),
           Beaches |-> TextCell(Yes), has_mountain |-> TextCell(No),
           Region |-> TextCell(Europe)],
          [city |-> TextCell(Rome), avg_home_price |-> NumCell(100),
           Beaches |-> TextCell(No), has_mountain |-> TextCell(<<"0">>),
           Region |-> TextCell(Asia)],
          [city |-> TextCell(Blank), avg_home_price |-> NaCell,
           Beaches |-> NaCell, has_mountain |-> NaCell, Region |-> NaCell]>>)
\* no price column: the table loads as empty
NoPriceColumn ==
    AttributesFile({"city", "Beaches"},
        <<[city |-> TextCell(Oslo), Beaches |-> TextCell(Yes)]>>)

\* the price cells of a file: numbers, a missing value, texts
PriceCells ==
    {NumCell(100), NumCell(0), NumCell(0 - 5), NaCell,
     TextCell(<<"a","b","c">>), TextCell(<<"1","2">>), TextCell(<<"-","7">>)}

\* the feature cells of a file: the tokens in several spellings, other texts,
\* a missing value, and the numbers and booleans read_csv delivers
FeatureCells ==
    {TextCell(<<"t","r","u","e">>), TextCell(<<"T","R","U","E">>), TextCell(<<"1">>), TextCell(Yes),
     TextCell(<<" ","y"," ">>), TextCell(<<"T">>), TextCell(<<"O","n">>),
     TextCell(No), TextCell(<<"f","a","l","s","e">>), TextCell(<<"0">>), TextCell(<<"2">>), NaCell,
     NumCell(0), NumCell(1), NumCell(2), BoolCell(TRUE), BoolCell(FALSE)}

\* read_csv gives a column one type: the first row's cell of a column is of the
\* kind of the second row's
PriceLike(cell) == IF cell.kind = "num" THEN NumCell(300) ELSE TextCell(<<"3","0","0">>)

FeatureLike(cell) ==
    CASE cell.kind = "num" -> NumCell(1)
      [] cell.kind = "bool" -> BoolCell(TRUE)
      [] OTHER -> TextCell(Yes)

\* a file of two rows: the second row's city, price and feature vary
TwoRowFile(city, price, feature) ==
    AttributesFile({"city", "avg_home_price", "Beaches"},
        <<[city |-> TextCell(Oslo), avg_home_price |-> PriceLike(price),
           Beaches |-> FeatureLike(feature)],
          [city |-> city, avg_home_price |-> price, Beaches |-> feature]>>)

GeneratedAttributes ==
    {TwoRowFile(city, price, feature) :
        city \in {TextCell(Rome), TextCell(LowerOslo), NaCell},
        price \in PriceCells, feature \in FeatureCells}

Lima == <<"L","i","m","a">>

\* spellings of continent labels
NorthAmericaUnderscore == <<"N","o","r","t","h","_","A","m","e","r","i","c","a">>
NorthAmericaHyphen == <<"n","o","r","t","h","-","a","m","e","r","i","c","a">>
NorthAmericaSpace == <<"N","o","r","t","h"," ","A","m","e","r","i","c","a">>
Eurasia == <<"E","u","r","a","s","i","a">>
LowerEu == <<"e","u">>

ContinentCells ==
    {TextCell(NorthAmericaUnderscore), TextCell(NorthAmericaHyphen),
     TextCell(NorthAmericaSpace), TextCell(Europe), TextCell(Eurasia), TextCell(LowerEu),
     NaCell}

\* a file of three cities, each with a continent label
ContinentFile(first, second, third) ==
    AttributesFile({"city", "avg_home_price", "continent"},
        <<[city |-> TextCell(Oslo), avg_home_price |-> NumCell(300), continent |-> first],
          [city |-> TextCell(Rome), avg_home_price |-> NumCell(100), continent |-> second],
          [city |-> TextCell(Lima), avg_home_price |-> NumCell(200), continent |-> third]>>)

ContinentFiles ==
    {ContinentFile(first, second, third) :
        first \in ContinentCells, second \in ContinentCells, third \in ContinentCells}

\* the values a request gives for continents: codes, names, a value no label has
ContinentRequests ==
    {<<>>, <<<<"N","A">>>>, <<<<"E","U">>>>, <<NorthAmericaHyphen>>, <<NorthAmericaSpace>>,
     <<<<"E","U">>, Eurasia>>, <<Asia>>}

(***************************************************************************)
(* The state.                                                              *)
(***************************************************************************)
VARIABLES
    history_file,        \* the history file (weather_history.csv)
    home_prices_file,    \* the attributes file (home_prices.csv)
    now,                 \* the wall clock, in ticks
    cycles,              \* fetch cycles persisted so far
    request,             \* the last request: handler, city, provider response, query
    outcome,             \* how it ended: shown, stored, message, invalid_form, raised, exit
    message_city,        \* the city the error message names (NA when there is none)
    loaded_df,           \* what load_history returned in the last request
    fresh_df,            \* what normalize_weather returned in the last request
    history_df,          \* the handler's history_df when it ended
    report,              \* what build_report returned
    home_price_df,       \* what load_home_prices returned
    filtered_price_df,   \* what filter_cities_by_home_price returned
    display_history_df,  \* the history the page shows
    continent_lookup,    \* the view's continent table and the continents it selected
    writers              \* the fetch cycles in progress, when cycles run side by side

vars ==
    <<history_file, home_prices_file, now, cycles, request, outcome, message_city,
      loaded_df, fresh_df, history_df, report, home_price_df, filtered_price_df,
      display_history_df, continent_lookup, writers>>

\* the processes that may run a fetch cycle side by side
Writers == {1, 2}

\* a process outside a fetch cycle
IdleWriter ==
    [pc |-> "idle", city |-> <<>>, loaded |-> <<>>, fresh |-> <<>>, merged |-> <<>>,
     loaded_at |-> 0, persisted_at |-> 0]

NoReport == [raised |-> FALSE, city |-> NA, current |-> <<>>, forecasts |-> <<>>]

\* the query string of a request, as the view reads it
Query(max_price, has_beach, has_mountain, has_winter_snow, continents) ==
    [max_price |-> max_price, has_beach |-> has_beach, has_mountain |-> has_mountain,
     has_winter_snow |-> has_winter_snow, continents |-> continents]

\* a request without a query string
NoQuery == Query(NoPrice, FALSE, FALSE, FALSE, <<>>)

Request(handler, city, response, query) ==
    [handler |-> handler, city |-> city, response |-> response, query |-> query]

StartOfClock == NoonOf(0)

\* no continent table: the handler builds none
NoLookup ==
    [available_continent_map |-> EmptyTable, continent_code_by_canonical |-> EmptyTable,
     selected_continents |-> <<>>]

\* a continent table with the continents selected from the requested values
WithSelection(lookup, requested) ==
    [available_continent_map |-> lookup.available_continent_map,
     continent_code_by_canonical |-> lookup.continent_code_by_canonical,
     selected_continents |-> SelectedContinents(lookup, requested)]

\* the view's continent table with the continents the request selects
LookupOf(prices, query) == WithSelection(ContinentLookup(prices), query.continents)

\* the price ceiling the view selects from the query (initial_max, or the form's value)
selected_max_price(prices, query) ==
    LET all == {prices[i].avg_home_price : i \in 1..Len(prices)}
        price_min == IF prices = <<>> THEN 0 ELSE MinOf(all)
        price_max == IF prices = <<>> THEN 0 ELSE MaxOf(all)
        raw == IF query.max_price.kind = "num" THEN query.max_price.num ELSE price_max
        initial_max == IF price_max # 0
                       THEN MaxOf({price_min, MinOf({raw, price_max})})
                       ELSE MaxOf({price_min, raw})
        coerced_min == MaxOf({0, price_min})
        coerced_max == MaxOf({coerced_min, price_max})
    IN  IF /\ query.max_price.kind = "num"
           /\ coerced_min <= query.max_price.num
           /\ query.max_price.num <= coerced_max
        THEN query.max_price.num
        ELSE initial_max

\* the filtered city table of a request (views.py, filtered_price_df)
FilteredPrices(prices, query, selected_continents) ==
    filter_cities_by_home_price(
        prices, Price(selected_max_price(prices, query)),
        prices # <<>> /\ query.has_beach,
        prices # <<>> /\ query.has_mountain,
        selected_continents)

\* what the view derives from the attributes table and the query string
ViewContext(prices, query, lookup) ==
    [home_price_df |-> prices, continent_lookup |-> lookup,
     filtered_price_df |-> FilteredPrices(prices, query, lookup.selected_continents)]

\* selected_has_winter_snow: off when the loaded history is empty
WinterSnowSelected(loaded, query) == loaded # <<>> /\ query.has_winter_snow

(***************************************************************************)
(* The handlers.                                                           *)
(***************************************************************************)
\* a handler that raised before it had a history: nothing is shown or written
Raised(req) ==
    /\ request' = req
    /\ outcome' = "raised"
    /\ message_city' = NA
    /\ loaded_df' = <<>>
    /\ fresh_df' = <<>>
    /\ history_df' = <<>>
    /\ report' = NoReport
    /\ home_price_df' = <<>>
    /\ filtered_price_df' = <<>>
    /\ display_history_df' = <<>>
    /\ continent_lookup' = NoLookup
    /\ UNCHANGED <<history_file, home_prices_file, now, cycles, writers>>

\* views.home on the history and the attributes it loaded
HomeRequest(req, lh, context) ==
    LET snow == WinterSnowSelected(lh.df, req.query)
        city == Strip(req.city)
        nw == normalize_weather(city, req.response.payload, now)
        br == build_report(nw.df)
        merged == append_history(lh.df, nw.df)
        Shown(result, msg, fresh, rep) ==
            /\ request' = req
            /\ outcome' = result
            /\ message_city' = msg
            /\ loaded_df' = lh.df
            /\ fresh_df' = fresh
            /\ history_df' = lh.df
            /\ report' = rep
            /\ home_price_df' = context.home_price_df
            /\ filtered_price_df' = context.filtered_price_df
            /\ display_history_df' =
                   build_display_frame(lh.df, context.home_price_df,
                                       context.filtered_price_df, snow)
            /\ continent_lookup' = context.continent_lookup
            /\ UNCHANGED <<history_file, home_prices_file, now, cycles, writers>>
    IN  IF lh.raised THEN Raised(req)
        ELSE IF req.handler = "GET" THEN Shown("shown", NA, <<>>, NoReport)
        ELSE IF city = <<>> THEN Shown("invalid_form", NA, <<>>, NoReport)
        ELSE IF req.response.kind = "failure" THEN Shown("message", city, <<>>, NoReport)
        ELSE IF nw.raised THEN Shown("message", city, <<>>, NoReport)
        ELSE IF br.raised THEN Shown("message", city, nw.df, NoReport)
        ELSE /\ cycles < MaxCycles
             /\ request' = req
             /\ outcome' = "stored"
             /\ message_city' = NA
             /\ loaded_df' = lh.df
             /\ fresh_df' = nw.df
             /\ history_df' = merged
             /\ report' = br
             /\ home_price_df' = context.home_price_df
             /\ filtered_price_df' = context.filtered_price_df
             /\ display_history_df' =
                    build_display_frame(merged, context.home_price_df,
                                        context.filtered_price_df, snow)
             /\ continent_lookup' = context.continent_lookup
             /\ history_file' = persist_history(merged)
             /\ cycles' = cycles + 1
             /\ UNCHANGED <<home_prices_file, now, writers>>

\* views.home: GET shows the filtered history, POST runs a fetch cycle first
home(method, city_input, response, query) ==
    HomeRequest(Request(method, city_input, response, query),
                load_history(history_file),
                ViewContext(load_home_prices(home_prices_file), query,
                            LookupOf(load_home_prices(home_prices_file), query)))

\* weather_app.run_cli: an exception of any step ends the process
run_cli(city, skip_fetch, response) ==
    LET req == Request("cli", city, response, NoQuery)
        lh == load_history(history_file)
        nw == normalize_weather(city, response.payload, now)
        br == build_report(nw.df)
        merged == append_history(lh.df, nw.df)
        Ended(result, fresh) ==
            /\ request' = req
            /\ outcome' = result
            /\ message_city' = NA
            /\ loaded_df' = lh.df
            /\ fresh_df' = fresh
            /\ history_df' = lh.df
            /\ report' = NoReport
            /\ home_price_df' = <<>>
            /\ filtered_price_df' = <<>>
            /\ display_history_df' = <<>>
            /\ continent_lookup' = NoLookup
            /\ UNCHANGED <<history_file, home_prices_file, now, cycles, writers>>
    IN  IF lh.raised THEN Raised(req)
        ELSE IF skip_fetch
             THEN Ended(IF lh.df = <<>> THEN "exit" ELSE "shown", <<>>)
        ELSE IF response.kind = "failure" \/ nw.raised THEN Ended("raised", <<>>)
        ELSE IF br.raised THEN Ended("raised", nw.df)
        ELSE /\ cycles < MaxCycles
             /\ request' = req
             /\ outcome' = "stored"
             /\ message_city' = NA
             /\ loaded_df' = lh.df
             /\ fresh_df' = nw.df
             /\ history_df' = merged
             /\ report' = br
             /\ home_price_df' = <<>>
             /\ filtered_price_df' = <<>>
             /\ display_history_df' = <<>>
             /\ continent_lookup' = NoLookup
             /\ history_file' = persist_history(merged)
             /\ cycles' = cycles + 1
             /\ UNCHANGED <<home_prices_file, now, writers>>

\* the wall clock advances
Tick ==
    /\ now < StartOfClock + MaxTicks
    /\ now' = now + 1
    /\ UNCHANGED <<history_file, home_prices_file, cycles, request, outcome, message_city,
                   loaded_df, fresh_df, history_df, report, home_price_df,
                   filtered_price_df, display_history_df, continent_lookup, writers>>

HomeGet == home("GET", <<>>, FetchFailure, NoQuery)
HomePost == \E city \in FormCities, response \in Responses : home("POST", city, response, NoQuery)
RunCli ==
    \E city \in CliCities, skip_fetch \in BOOLEAN, response \in Responses :
        run_cli(city, skip_fetch, response)

InitHandlers ==
    /\ now = StartOfClock
    /\ cycles = 0
    /\ request = Request("none", <<>>, FetchFailure, NoQuery)
    /\ outcome = "none"
    /\ message_city = NA
    /\ loaded_df = <<>>
    /\ fresh_df = <<>>
    /\ history_df = <<>>
    /\ report = NoReport
    /\ home_price_df = <<>>
    /\ filtered_price_df = <<>>
    /\ display_history_df = <<>>
    /\ continent_lookup = NoLookup
    /\ writers = [w \in Writers |-> IdleWriter]

\* the fetch cycles of a single writer, from any history file
Init ==
    /\ history_file \in HistoryFiles
    /\ home_prices_file = BarePrices
    /\ InitHandlers

Next == HomeGet \/ HomePost \/ RunCli \/ Tick

Spec == Init /\ [][Next]_vars

(***************************************************************************)
(* Claims about the history store, checked under Spec.                     *)
(***************************************************************************)
\* the positions of df that hold key k
Holding(df, k) == {i \in 1..Len(df) : KeyOf(df[i]) = k}

\* k is a key of the incoming batch that collides: with a row of the existing
\* history, or with another row of the batch
Collides(k) ==
    /\ Holding(fresh_df, k) # {}
    /\ (Holding(loaded_df, k) # {} \/ Cardinality(Holding(fresh_df, k)) > 1)

\* C1: after append_history(existing, incoming), a key that an existing row and
\* an incoming row share (or that two incoming rows share) is held by exactly
\* one row of the result, and that row has the values of the last incoming row
\* with the key.
C1_IncomingWins ==
    outcome = "stored" =>
        \A k \in Keys(fresh_df) :
            Collides(k) =>
                /\ Cardinality(Holding(history_df, k)) = 1
                /\ \A i \in Holding(history_df, k) :
                       ValuesOf(history_df[i])
                           = ValuesOf(fresh_df[MaxOf(Holding(fresh_df, k))])

\* an existing row and two incoming rows share a key, and the existing row's
\* values differ from the values that won
C1_Witness ==
    /\ outcome = "stored"
    /\ \E k \in Keys(loaded_df) \cap Keys(fresh_df) :
           /\ Cardinality(Holding(fresh_df, k)) > 1
           /\ \E i \in Holding(loaded_df, k), j \in Holding(history_df, k) :
                  ValuesOf(loaded_df[i]) # ValuesOf(history_df[j])

\* C2: no two rows of a history that append_history returned share a key.
C2_KeysUnique ==
    outcome = "stored" =>
        \A i, j \in 1..Len(history_df) :
            i # j => KeyOf(history_df[i]) # KeyOf(history_df[j])

\* a second cycle merged a batch into a history that held a repeated key
C2_Witness ==
    /\ outcome = "stored"
    /\ cycles = 2
    /\ Len(history_df) < Len(loaded_df) + Len(fresh_df)
    /\ Len(history_df) > 2

\* rows with an instant are in non-decreasing order of timestamp_utc
Ascending(df) ==
    \A i, j \in 1..Len(df) :
        (i < j /\ df[i].timestamp_utc # NaT /\ df[j].timestamp_utc # NaT)
            => df[i].timestamp_utc <= df[j].timestamp_utc

\* C3: every history load_history returns, append_history returns and
\* persist_history writes in a fetch cycle is in ascending order of
\* timestamp_utc.
C3_AlwaysAscending ==
    /\ Ascending(loaded_df)
    /\ outcome = "stored" =>
           /\ Ascending(history_df)
           /\ Ascending(load_history(history_file).df)

\* C4: append_history(H, H) has the rows of H, for every H load_history returns.
C4_SelfMergeIdempotent ==
    Range(append_history(loaded_df, loaded_df)) = Range(loaded_df)

\* C5: after a successful cycle, every key of the history file as it was loaded
\* and every key of the incoming batch is a key of the history file.
C5_NoKeyLost ==
    outcome = "stored" =>
        (Keys(loaded_df) \cup Keys(fresh_df)) \subseteq Keys(load_history(history_file).df)

\* the responses of the provider that make a cycle fail
FailingResponses == {FetchFailure} \cup {Fetched(p) : p \in BadPayloads}

\* C6: a POST whose fetch or normalization fails leaves the history file as it
\* was, merges nothing, and ends in a message that names the city.
C6_FailedCycleWritesNothing ==
    [][(/\ request'.handler = "POST"
        /\ Strip(request'.city) # <<>>
        /\ request'.response \in FailingResponses
        /\ load_history(history_file).raised = FALSE)
       => (/\ history_file' = history_file
           /\ history_df' = load_history(history_file).df
           /\ outcome' = "message"
           /\ message_city' = Strip(request'.city))]_vars

\* normalization failed on the second forecast day, over a history file with rows
C6_Witness ==
    /\ request.handler = "POST"
    /\ request.response = Fetched(PayloadBadDay)
    /\ outcome = "message"
    /\ message_city = Oslo
    /\ history_file.kind = "table"
    /\ history_file.rows # <<>>
    /\ cycles = 1

\* C7: a history file that cannot be parsed never makes the view fail.
C7_UnparseableLoadsEmpty ==
    (request.handler \in {"GET", "POST"} /\ history_file.kind = "unparseable")
        => (outcome # "raised" /\ loaded_df = <<>>)

(***************************************************************************)
(* The filter engine on its own: the view's GET with a query string, and   *)
(* the services called directly, over sample history and attributes files. *)
(***************************************************************************)
PaddedEurope == <<" ","e","U","R","O","P","E">>

PriceGrid == {50, 100, 200, 300, 400}
PriceInputs == {NoPrice, BadPrice} \cup {Price(n) : n \in PriceGrid}
ContinentInputs == {<<>>, <<Europe>>, <<PaddedEurope>>, <<Asia, Europe>>, <<Blank>>}
Queries ==
    {Query(p, b, m, w, c) :
        p \in PriceInputs, b \in BOOLEAN, m \in BOOLEAN, w \in BOOLEAN, c \in ContinentInputs}

FilterHistoryFiles ==
    {AbsentFile, SortedTable, UnsortedTable, GarbageStampTable, WinterTable}
AttributesFiles == {AbsentAttributes, BarePrices, FullPrices, NoPriceColumn}

\* a GET of the view with a query string; the stores do not change, so a
\* behaviour is one request
HomeGetQuery ==
    /\ request.handler = "none"
    /\ \E query \in Queries : home("GET", <<>>, FetchFailure, query)

\* filter_cities_by_home_price, then filter_history_by_cities, called on the stores
ApplyFilters ==
    \E query \in Queries :
        LET lh == load_history(history_file)
            prices == load_home_prices(home_prices_file)
            cities == filter_cities_by_home_price(
                          prices, query.max_price, query.has_beach, query.has_mountain,
                          query.continents)
        IN  /\ request.handler = "none"
            /\ ~lh.raised
            /\ request' = Request("services", <<>>, FetchFailure, query)
            /\ outcome' = "filtered"
            /\ message_city' = NA
            /\ loaded_df' = lh.df
            /\ fresh_df' = <<>>
            /\ history_df' = lh.df
            /\ report' = NoReport
            /\ home_price_df' = prices
            /\ filtered_price_df' = cities
            /\ display_history_df' = filter_history_by_cities(lh.df, cities)
            /\ continent_lookup' = NoLookup
            /\ UNCHANGED <<history_file, home_prices_file, now, cycles, writers>>

\* filter_history_for_winter_snow called on the loaded history
ApplyWinterSnow ==
    \E require_winter_snow \in BOOLEAN :
        LET lh == load_history(history_file)
        IN  /\ request.handler = "none"
            /\ ~lh.raised
            /\ request' = Request("services", <<>>, FetchFailure,
                                  Query(NoPrice, FALSE, FALSE, require_winter_snow, <<>>))
            /\ outcome' = "winter"
            /\ message_city' = NA
            /\ loaded_df' = lh.df
            /\ fresh_df' = <<>>
            /\ history_df' = lh.df
            /\ report' = NoReport
            /\ home_price_df' = <<>>
            /\ filtered_price_df' = <<>>
            /\ display_history_df' =
                   filter_history_for_winter_snow(lh.df, require_winter_snow)
            /\ continent_lookup' = NoLookup
            /\ UNCHANGED <<history_file, home_prices_file, now, cycles, writers>>

InitFilter ==
    /\ history_file \in FilterHistoryFiles
    /\ home_prices_file \in AttributesFiles
    /\ InitHandlers

NextFilter == HomeGetQuery \/ ApplyFilters \/ ApplyWinterSnow

SpecFilter == InitFilter /\ [][NextFilter]_vars

(***************************************************************************)
(* The attributes store and the continent resolver on their own: a file is *)
(* loaded, or the view answers a GET that selects continents.              *)
(***************************************************************************)
\* load_home_prices called on the attributes file
LoadAttributes ==
    /\ request.handler = "none"
    /\ request' = Request("services", <<>>, FetchFailure, NoQuery)
    /\ outcome' = "loaded"
    /\ message_city' = NA
    /\ loaded_df' = <<>>
    /\ fresh_df' = <<>>
    /\ history_df' = <<>>
    /\ report' = NoReport
    /\ home_price_df' = load_home_prices(home_prices_file)
    /\ filtered_price_df' = <<>>
    /\ display_history_df' = <<>>
    /\ continent_lookup' = NoLookup
    /\ UNCHANGED <<history_file, home_prices_file, now, cycles, writers>>

\* a GET of the view whose query string selects continents
HomeGetContinents ==
    /\ request.handler = "none"
    /\ \E requested \in ContinentRequests :
           home("GET", <<>>, FetchFailure, Query(NoPrice, FALSE, FALSE, FALSE, requested))

InitAttributes ==
    /\ history_file = SortedTable
    /\ home_prices_file \in GeneratedAttributes \cup ContinentFiles
    /\ InitHandlers

NextAttributes == LoadAttributes \/ HomeGetContinents

SpecAttributes == InitAttributes /\ [][NextAttributes]_vars

CityKeys(cities_df) == {cities_df[i].city_key : i \in 1..Len(cities_df)}

\* the trimmed, case-folded city of a history row is the key of a row of cities_df
Joins(r, cities_df) == r.city # NA /\ Casefold(Strip(r.city)) \in CityKeys(cities_df)

\* C9: filter_history_by_cities(H, C) is H restricted to the rows whose trimmed,
\* case-folded city is a city_key of C, in H's order; it is empty when C is
\* empty and H itself when C holds the key of every row of H.
C9_JoinByCityKey ==
    outcome = "filtered" =>
        /\ display_history_df = SelectSeq(history_df, LAMBDA r : Joins(r, filtered_price_df))
        /\ filtered_price_df = <<>> => display_history_df = <<>>
        /\ (\A i \in 1..Len(history_df) : Joins(history_df[i], filtered_price_df))
               => display_history_df = history_df

\* a row is kept whose city is spelled unlike its key, and another row is dropped
C9_Witness ==
    /\ outcome = "filtered"
    /\ display_history_df # <<>>
    /\ Len(display_history_df) < Len(history_df)
    /\ \E i \in 1..Len(display_history_df) :
           display_history_df[i].city \notin CityKeys(filtered_price_df)

\* the cities of a city table
CitiesOf(cities_df) == {cities_df[i].city : i \in 1..Len(cities_df)}

\* a row of the attributes table passes the predicates other than the price
PassesFeatures(r, query) ==
    /\ query.has_beach => r.has_beach
    /\ query.has_mountain => r.has_mountain
    /\ query.continents # <<>> =>
           /\ r.continent # NA
           /\ \E i \in 1..Len(query.continents) :
                  /\ Strip(query.continents[i]) # <<>>
                  /\ Casefold(Strip(query.continents[i])) = Casefold(Strip(r.continent))

\* C10: with the table and the other predicates fixed, every city returned for
\* a ceiling is returned for every higher ceiling; and with max_price absent or
\* unparseable every row that passes the other predicates is returned.
C10_MonotonicInMaxPrice ==
    outcome = "filtered" =>
        LET q == request.query
            At(p) == filter_cities_by_home_price(
                         home_price_df, p, q.has_beach, q.has_mountain, q.continents)
        IN  /\ \A p1, p2 \in PriceGrid :
                   p1 <= p2 => CitiesOf(At(Price(p1))) \subseteq CitiesOf(At(Price(p2)))
            /\ q.max_price.kind # "num" =>
                   Range(filtered_price_df)
                       = {r \in Range(home_price_df) : PassesFeatures(r, q)}

\* a ceiling between two prices of the table drops a city that a higher ceiling keeps
C10_Witness ==
    /\ outcome = "filtered"
    /\ request.query.max_price = Price(200)
    /\ filtered_price_df # <<>>
    /\ Len(filtered_price_df) < Len(home_price_df)
    /\ CitiesOf(filtered_price_df)
           # CitiesOf(filter_cities_by_home_price(
                 home_price_df, Price(300), request.query.has_beach,
                 request.query.has_mountain, request.query.continents))

\* the day of the year (0..364) of an instant of 1970 or 1971
DayOfYear(ts) == ((ts \div SubSec) \div 86400) % 365

\* an instant of January, February (days 0..58) or December (days 334..364)
InWinter(ts) == ts # NaT /\ (DayOfYear(ts) < 59 \/ DayOfYear(ts) >= 334)

\* the letters s, n, o, w, in either case, follow each other somewhere in the text
MentionsSnow(text) ==
    /\ text # NA
    /\ \E i \in 1..Len(text) :
           /\ i + 3 <= Len(text)
           /\ text[i] \in {"s", "S"}
           /\ text[i + 1] \in {"n", "N"}
           /\ text[i + 2] \in {"o", "O"}
           /\ text[i + 3] \in {"w", "W"}

\* C11: filter_history_for_winter_snow returns its input when disabled; when
\* enabled it returns, in input order, exactly the rows of December, January
\* or February whose description mentions snow in any case.
C11_WinterAndSnow ==
    outcome = "winter" =>
        IF request.query.has_winter_snow
        THEN display_history_df
                 = SelectSeq(history_df,
                       LAMBDA r : InWinter(r.timestamp_utc) /\ MentionsSnow(r.description))
        ELSE display_history_df = history_df

\* the filter is on: a March row with "light snow" and a January row with
\* "Clear" are left out, a December row with "heavy Snow showers" is kept
C11_Witness ==
    /\ outcome = "winter"
    /\ request.query.has_winter_snow
    /\ \E i \in 1..Len(history_df) :
           /\ history_df[i].description = LightSnow17.description
           /\ MonthOf(history_df[i].timestamp_utc) = 3
           /\ history_df[i] \notin Range(display_history_df)
    /\ \E i \in 1..Len(history_df) :
           /\ history_df[i].description = Clear20.description
           /\ MonthOf(history_df[i].timestamp_utc) = 1
           /\ history_df[i] \notin Range(display_history_df)
    /\ \E i \in 1..Len(display_history_df) :
           /\ display_history_df[i].description = HeavySnowShowers16.description
           /\ MonthOf(display_history_df[i].timestamp_utc) = 12

\* the stages of the displayed history, one by one
AboveThreshold(df) == SelectSeq(df, LAMBDA r : r.temperature_C > 15)

WarmestFirst(df) == SortBy(df, LAMBDA a, b : a.temperature_C > b.temperature_C)

CityJoin(df) ==
    IF home_price_df = <<>> THEN df ELSE filter_history_by_cities(df, filtered_price_df)

WinterSnow(df) ==
    filter_history_for_winter_snow(df, WinterSnowSelected(history_df, request.query))

\* how many times each row occurs
RowCounts(df) == [r \in Range(df) |-> Cardinality({i \in 1..Len(df) : df[i] = r})]

\* the stages applied with the winter-snow filter first
WinterSnowFirst(df) == CityJoin(WarmestFirst(AboveThreshold(WinterSnow(df))))

\* every stage narrowed the history of the request, and a row is left
EveryStageNarrows ==
    /\ request.handler = "GET"
    /\ outcome = "shown"
    /\ Len(AboveThreshold(history_df)) < Len(history_df)
    /\ Len(CityJoin(AboveThreshold(history_df))) < Len(AboveThreshold(history_df))
    /\ Len(display_history_df) < Len(CityJoin(AboveThreshold(history_df)))
    /\ display_history_df # <<>>

RaceCities == {Oslo, Rome}
RacePayloads == {PayloadCurrentOnly, PayloadWithDay}
RaceHistoryFiles == {AbsentFile, SortedTable}

\* everything but the history file, the clock and the cycles in progress
HandlerVars ==
    <<home_prices_file, request, outcome, message_city, loaded_df, fresh_df, history_df,
      report, home_price_df, filtered_price_df, display_history_df, continent_lookup>>

\* load_history at the start of a request (views.py, line 69)
WriterLoad(w) ==
    /\ writers[w].pc = "idle"
    /\ ~load_history(history_file).raised
    /\ \E city \in RaceCities :
           writers' = [writers EXCEPT ![w] =
                          [@ EXCEPT !.pc = "loaded", !.city = city,
                                    !.loaded = load_history(history_file).df,
                                    !.loaded_at = cycles]]
    /\ UNCHANGED <<history_file, now, cycles>>
    /\ UNCHANGED HandlerVars

\* fetch_weather_payload, normalize_weather and append_history (views.py, 296-300)
WriterMerge(w) ==
    /\ writers[w].pc = "loaded"
    /\ \E payload \in RacePayloads :
           LET fresh == normalize_weather(writers[w].city, payload, now).df
           IN  writers' = [writers EXCEPT ![w] =
                              [@ EXCEPT !.pc = "merged", !.fresh = fresh,
                                        !.merged = append_history(writers[w].loaded, fresh)]]
    /\ UNCHANGED <<history_file, now, cycles>>
    /\ UNCHANGED HandlerVars

\* a persist step that reads the file again and merges into what it holds
WriterPersistReloading(w) ==
    /\ writers[w].pc = "merged"
    /\ cycles < MaxCycles
    /\ history_file' = persist_history(
                           append_history(load_history(history_file).df, writers[w].fresh))
    /\ cycles' = cycles + 1
    /\ writers' = [writers EXCEPT ![w] = [@ EXCEPT !.pc = "done",
                                                    !.persisted_at = cycles + 1]]
    /\ UNCHANGED now
    /\ UNCHANGED HandlerVars

\* persist_history of the merged history (views.py, line 301)
WriterPersist(w) ==
    /\ writers[w].pc = "merged"
    /\ cycles < MaxCycles
    /\ history_file' = persist_history(writers[w].merged)
    /\ cycles' = cycles + 1
    /\ writers' = [writers EXCEPT ![w] = [@ EXCEPT !.pc = "done",
                                                    !.persisted_at = cycles + 1]]
    /\ UNCHANGED now
    /\ UNCHANGED HandlerVars

InitRace ==
    /\ history_file \in RaceHistoryFiles
    /\ home_prices_file = BarePrices
    /\ InitHandlers

NextRace ==
    \/ \E w \in Writers : WriterLoad(w)
    \/ \E w \in Writers : WriterMerge(w)
    \/ \E w \in Writers : WriterPersist(w)
    \/ Tick

SpecRace == InitRace /\ [][NextRace]_vars

(***************************************************************************)
(* Claims about the attributes store, checked under SpecAttributes.        *)
(***************************************************************************)
\* C13: every row load_home_prices returns has a price that is present and
\* not negative.
C13_PricesPresentNonNegative ==
    outcome = "loaded" =>
        \A i \in 1..Len(home_price_df) :
            home_price_df[i].priced /\ home_price_df[i].avg_home_price >= 0

\* the value is one of the tokens true, 1, yes, y, t, on: a text in any case
\* (and padding), the number 1, the boolean true
IsTruthyToken(cell) ==
    CASE cell.kind = "str" -> Casefold(Strip(cell.text)) \in TruthyTokens
      [] cell.kind = "na" -> FALSE
      [] OTHER -> cell.num = 1

\* C14: the has_beach of a loaded row is true exactly when the feature cell of
\* its file row is one of the tokens; every other cell gives false.
C14_TruthyTokensOnly ==
    outcome = "loaded" =>
        \A i \in 1..Len(home_price_df), j \in 1..Len(home_prices_file.rows) :
            (/\ "Beaches" \in home_prices_file.columns
             /\ CellText(home_prices_file.rows[j].city) = home_price_df[i].city
             /\ ToNumeric(home_prices_file.rows[j].avg_home_price).ok
             /\ ToNumeric(home_prices_file.rows[j].avg_home_price).num
                    = home_price_df[i].avg_home_price)
                => home_price_df[i].has_beach
                       = IsTruthyToken(home_prices_file.rows[j].Beaches)

\* the continent labels of the loaded table, in row order
StoreLabels ==
    SelectSeq([i \in 1..Len(home_price_df) |-> home_price_df[i].continent],
              LAMBDA label : label # NA)

\* the token sequence of a label: case-folded, cut at whitespace, "_", "-" and
\* "/", with "&" read as the token "and"
TokensOf(label) == SplitWhitespace(ReplaceSeparators(Casefold(label)))

\* the first label of the store that has the key
FirstSeen(key) ==
    StoreLabels[MinOf({i \in 1..Len(StoreLabels) :
                          normalize_continent_key(StoreLabels[i]) = key})]

\* the view answered a GET over a table with continent labels
ContinentTableBuilt ==
    /\ request.handler = "GET"
    /\ outcome = "shown"
    /\ StoreLabels # <<>>

\* C15: two labels get the same key exactly when they have the same token
\* sequence; "North_America", "north-america" and "North America" get one
\* key; and a label looked up in the view's table resolves to the first label
\* of the store that has its key (keys of more than three characters, which
\* no derived code can equal).
C15_SameTokensSameKey ==
    ContinentTableBuilt =>
        LET labels == Range(StoreLabels) \cup Range(request.query.continents)
            table == continent_lookup.available_continent_map
        IN  /\ \A a, b \in labels :
                   (normalize_continent_key(a) = normalize_continent_key(b))
                       <=> (TokensOf(a) = TokensOf(b))
            /\ normalize_continent_key(NorthAmericaUnderscore)
                   = normalize_continent_key(NorthAmericaSpace)
            /\ normalize_continent_key(NorthAmericaHyphen)
                   = normalize_continent_key(NorthAmericaSpace)
            /\ \A a \in labels :
                   LET key == normalize_continent_key(a)
                   IN  (/\ Len(key) > 3
                        /\ \E i \in 1..Len(StoreLabels) :
                               normalize_continent_key(StoreLabels[i]) = key)
                           => (key \in DOMAIN table /\ table[key] = FirstSeen(key))

\* the store spells North America in three ways, "North_America" first, and the
\* request's "north-america" selects "North_America"
C15_Witness ==
    /\ ContinentTableBuilt
    /\ StoreLabels = <<NorthAmericaUnderscore, NorthAmericaHyphen, NorthAmericaSpace>>
    /\ request.query.continents = <<NorthAmericaHyphen>>
    /\ continent_lookup.selected_continents = <<NorthAmericaUnderscore>>

\* C16: two distinct canonical names never have the same derived code, and
\* each code offered as a choice resolves back to the canonical name it was
\* derived from.
C16_NoCodeTies ==
    ContinentTableBuilt =>
        LET codes == continent_lookup.continent_code_by_canonical
            table == continent_lookup.available_continent_map
        IN  /\ \A first, second \in DOMAIN codes :
                   first # second => codes[first] # codes[second]
            /\ \A choice \in ContinentChoices(continent_lookup) :
                   /\ normalize_continent_key(choice[1]) \in DOMAIN table
                   /\ table[normalize_continent_key(choice[1])] = choice[2]

\* the rows of the loaded table on the continent of a canonical name: their
\* label has the key of the name
OnContinent(canonical) ==
    {r \in Range(home_price_df) :
        /\ r.continent # NA
        /\ normalize_continent_key(r.continent) = normalize_continent_key(canonical)}

\* C19: when a request selects the code of a choice, every row whose continent
\* label has the key of the code's canonical name is in the filtered table
\* (the request asks for no price ceiling and no feature).
C19_SelectionKeepsContinent ==
    ContinentTableBuilt =>
        \A i \in 1..Len(request.query.continents) :
            LET code == request.query.continents[i]
                table == continent_lookup.available_continent_map
            IN  (/\ \E choice \in ContinentChoices(continent_lookup) : choice[1] = code
                 /\ normalize_continent_key(code) \in DOMAIN table)
                    => OnContinent(table[normalize_continent_key(code)])
                           \subseteq Range(filtered_price_df)

(***************************************************************************)
(* Claims about the history file under one writer (Spec) and under two     *)
(* (SpecRace).                                                             *)
(***************************************************************************)
\* the keys of a history as the file spells them
WrittenKeys(df) ==
    {<<WriteText(df[i].city), FormatTimestamp(df[i].timestamp_utc), df[i].source>> :
        i \in 1..Len(df)}

\* the keys of the rows of the history file
FileKeys ==
    {<<history_file.rows[i].city, history_file.rows[i].timestamp_utc,
       history_file.rows[i].source>> : i \in 1..Len(history_file.rows)}

\* both cycles persisted, later after earlier, and later loaded the file
\* before earlier persisted
Overtaken(earlier, later) ==
    /\ writers[earlier].pc = "done"
    /\ writers[later].pc = "done"
    /\ writers[earlier].persisted_at < writers[later].persisted_at
    /\ writers[later].loaded_at < writers[earlier].persisted_at

\* the keys the earlier cycle wrote that the later cycle neither loaded nor fetched
LostKeys(earlier, later) ==
    WrittenKeys(writers[earlier].fresh)
        \ (WrittenKeys(writers[later].loaded) \cup WrittenKeys(writers[later].fresh))

\* C17: when two cycles interleave so that the later persist works from a
\* snapshot read before the earlier persist, every observation of the earlier
\* cycle that the later one neither loaded nor fetched is missing from the
\* file; when the later cycle loaded after the earlier persisted, nothing of
\* the earlier cycle is missing.
C17_StaleSnapshotLosesUpdate ==
    \A earlier, later \in Writers :
        /\ Overtaken(earlier, later) => LostKeys(earlier, later) \cap FileKeys = {}
        /\ (/\ writers[earlier].pc = "done"
             /\ writers[later].pc = "done"
             /\ writers[earlier].persisted_at <= writers[later].loaded_at)
                => WrittenKeys(writers[earlier].fresh) \subseteq FileKeys

\* a lost update: an observation the earlier cycle persisted is not in the file
C17_Witness ==
    \E earlier, later \in Writers :
        /\ Overtaken(earlier, later)
        /\ LostKeys(earlier, later) # {}
        /\ ~(WrittenKeys(writers[earlier].fresh) \subseteq FileKeys)

\* C18: the history loaded from the file persist_history wrote has the keys of
\* the history that was written, and no key twice.
C18_PersistLoadKeepsKeys ==
    outcome = "stored" =>
        LET reloaded == load_history(history_file).df
        IN  /\ Keys(reloaded) = Keys(history_df)
            /\ \A i, j \in 1..Len(reloaded) :
                   i # j => KeyOf(reloaded[i]) # KeyOf(reloaded[j])

====
